---- MODULE Spec2Model ----
(***************************************************************************)
(* A model of the PDFToMarkdown converter (src/index.ts, its build         *)
(* src/dist/index.js, and the earlier variants kept in src/index.js).      *)
(*                                                                         *)
(* A JavaScript string is a sequence of one-character strings, so that     *)
(* length, indexOf, trim, split and the regular expressions of the code    *)
(* are computed character by character.  A coordinate is an integer number *)
(* of thousandths of a PDF unit, so that Math.round(v * 100) / 100 is a    *)
(* real rounding (to a multiple of 10 thousandths).                        *)
(***************************************************************************)
EXTENDS Integers, Sequences, FiniteSets, TLC

(***************************************************************************)
(* Characters and character classes of the regular expressions.            *)
(***************************************************************************)
NL == "\n"
BULLET == "bullet"   \* the glyph U+2022, one UTF-16 unit

UpperSeq == <<"A","B","C","D","E","F","G","H","I","J","K","L","M",
              "N","O","P","Q","R","S","T","U","V","W","X","Y","Z">>
LowerSeq == <<"a","b","c","d","e","f","g","h","i","j","k","l","m",
              "n","o","p","q","r","s","t","u","v","w","x","y","z">>
Digits == {"0","1","2","3","4","5","6","7","8","9"}

Range(s) == {s[i] : i \in DOMAIN s}
Upper == Range(UpperSeq)
Lower == Range(LowerSeq)

\* \s of a JavaScript regular expression, and the characters trim() strips
IsSpace(c) == c \in {" ", NL, "\t", "\r"}
\* \w
IsWordChar(c) == c \in Upper \cup Lower \cup Digits \cup {"_"}
\* \d
IsDigit(c) == c \in Digits

\* String.prototype.toUpperCase, one character
UpperChar(c) ==
    IF c \in Lower
      THEN UpperSeq[CHOOSE i \in DOMAIN LowerSeq : LowerSeq[i] = c]
      ELSE c
toUpperCase(s) == [i \in DOMAIN s |-> UpperChar(s[i])]

(***************************************************************************)
(* String primitives.                                                      *)
(***************************************************************************)
Min(a, b) == IF a < b THEN a ELSE b
Abs(a) == IF a < 0 THEN 0 - a ELSE a

\* s.substring(i - 1, j) with 1-based inclusive bounds; empty when j < i
Sub(s, i, j) == IF j < i THEN <<>> ELSE SubSeq(s, i, j)

\* does sub occur in s at (1-based) position i
MatchAt(s, i, sub) ==
    /\ i >= 1
    /\ i + Len(sub) - 1 <= Len(s)
    /\ \A k \in 1..Len(sub) : s[i + k - 1] = sub[k]

\* String.prototype.includes
includes(s, sub) == \E i \in 1..(Len(s) + 1) : MatchAt(s, i, sub)

\* String.prototype.startsWith
startsWith(s, sub) == MatchAt(s, 1, sub)

\* String.prototype.trim
RECURSIVE TrimLeft(_)
TrimLeft(s) ==
    IF s # <<>> /\ IsSpace(Head(s)) THEN TrimLeft(Tail(s)) ELSE s
RECURSIVE TrimRight(_)
TrimRight(s) ==
    IF s # <<>> /\ IsSpace(s[Len(s)]) THEN TrimRight(Sub(s, 1, Len(s) - 1)) ELSE s
trim(s) == TrimRight(TrimLeft(s))

\* Array.prototype.join of an array of strings
RECURSIVE join(_, _)
join(parts, sep) ==
    IF parts = <<>> THEN <<>>
    ELSE IF Len(parts) = 1 THEN parts[1]
    ELSE parts[1] \o sep \o join(Tail(parts), sep)

\* s.split(c) for a one-character separator: never empty, "" gives [""]
RECURSIVE SplitFrom(_, _, _, _)
SplitFrom(s, c, i, cur) ==
    IF i > Len(s) THEN <<cur>>
    ELSE IF s[i] = c THEN <<cur>> \o SplitFrom(s, c, i + 1, <<>>)
    ELSE SplitFrom(s, c, i + 1, Append(cur, s[i]))
split(s, c) == SplitFrom(s, c, 1, <<>>)

\* s.split(/\s+/): a maximal run of white space is one separator
RECURSIVE SplitWsFrom(_, _, _)
SplitWsFrom(s, i, cur) ==
    IF i > Len(s) THEN <<cur>>
    ELSE IF IsSpace(s[i])
      THEN IF i > 1 /\ IsSpace(s[i - 1])
             THEN SplitWsFrom(s, i + 1, cur)
             ELSE <<cur>> \o SplitWsFrom(s, i + 1, <<>>)
    ELSE SplitWsFrom(s, i + 1, Append(cur, s[i]))
splitWs(s) == SplitWsFrom(s, 1, <<>>)

\* the end (exclusive) of the maximal run of white space of s from i on
RECURSIVE SpaceRunEnd(_, _)
SpaceRunEnd(s, i) ==
    IF i <= Len(s) /\ IsSpace(s[i]) THEN SpaceRunEnd(s, i + 1) ELSE i
\* the end (exclusive) of the maximal run of newlines of s from i on
RECURSIVE NewlineRunEnd(_, _)
NewlineRunEnd(s, i) ==
    IF i <= Len(s) /\ s[i] = NL THEN NewlineRunEnd(s, i + 1) ELSE i

\* string literals of the code
Str_http == <<"h","t","t","p">>
Str_at == <<"@">>
Str_dash_space == <<"-"," ">>
Str_header == <<NL,"#","#"," ">>      \* the prefix of `\n## ${trimmed}\n`
Str_nlnl == <<NL, NL>>

(***************************************************************************)
(* src/index.ts: the Markdown formatter.                                   *)
(***************************************************************************)
\* text.replace(/\s{2,}/g, ' ').trim()
RECURSIVE CollapseSpaceFrom(_, _)
CollapseSpaceFrom(s, i) ==
    IF i > Len(s) THEN <<>>
    ELSE IF IsSpace(s[i]) /\ SpaceRunEnd(s, i) - i >= 2
      THEN <<" ">> \o CollapseSpaceFrom(s, SpaceRunEnd(s, i))
      ELSE <<s[i]>> \o CollapseSpaceFrom(s, i + 1)
normalizeSpacing(text) == trim(CollapseSpaceFrom(text, 1))

\* the length cap of a header line
HeaderMaxLen == 70

\* !/[^\w\s,-]/.test(text)
OnlyHeaderChars(text) ==
    \A i \in DOMAIN text :
        IsWordChar(text[i]) \/ IsSpace(text[i]) \/ text[i] \in {",", "-"}

isSectionHeader(text) ==
    IF includes(text, Str_at) \/ includes(text, Str_http) THEN FALSE
    ELSE IF Len(text) > HeaderMaxLen THEN FALSE
    ELSE \/ text = toUpperCase(text)
         \/ (Len(text) >= 2 /\ OnlyHeaderChars(text))

\* the forEach of detectAndFormatSections from line index on (1-based);
\* the result is the array `formatted`
RECURSIVE SectionsFrom(_, _, _)
SectionsFrom(lines, index, lastLineWasHeader) ==
    IF index > Len(lines) THEN <<>>
    ELSE LET line == lines[index]
             trimmed == trim(line)
         IN  IF isSectionHeader(trimmed)
               THEN (IF index # 1 /\ ~lastLineWasHeader THEN << <<>> >> ELSE <<>>)
                    \o << Str_header \o trimmed \o <<NL>> >>
                    \o SectionsFrom(lines, index + 1, TRUE)
               ELSE <<line>> \o SectionsFrom(lines, index + 1, FALSE)
detectAndFormatSections(text) ==
    join(SectionsFrom(split(text, NL), 1, FALSE), <<NL>>)

\* /^\d+\./.test(trimmed)
StartsWithNumberDot(trimmed) ==
    LET e == CHOOSE j \in 1..(Len(trimmed) + 1) :
                 /\ \A k \in 1..(j - 1) : IsDigit(trimmed[k])
                 /\ (j > Len(trimmed) \/ ~IsDigit(trimmed[j]))
    IN  e > 1 /\ e <= Len(trimmed) /\ trimmed[e] = "."

isListItem(trimmed) ==
    \/ startsWith(trimmed, <<BULLET>>)
    \/ startsWith(trimmed, <<"-">>)
    \/ StartsWithNumberDot(trimmed)

\* trimmed.replace(/^[•-\d.]\s*/, '- '): the class holds the bullet, the
\* hyphen, a digit and the dot (a range cannot end in \d, so - is literal)
ReplaceListMarker(trimmed) ==
    IF trimmed # <<>> /\ (trimmed[1] \in {BULLET, "-", "."} \/ IsDigit(trimmed[1]))
      THEN Str_dash_space \o Sub(trimmed, SpaceRunEnd(trimmed, 2), Len(trimmed))
      ELSE trimmed

\* the forEach of detectAndFormatLists from line index on (1-based)
RECURSIVE ListsFrom(_, _, _)
ListsFrom(lines, index, inList) ==
    IF index > Len(lines) THEN <<>>
    ELSE LET line == lines[index]
             trimmed == trim(line)
         IN  IF isListItem(trimmed)
               THEN <<ReplaceListMarker(trimmed)>> \o ListsFrom(lines, index + 1, TRUE)
             ELSE IF inList /\ (trimmed = <<>> \/
                                (index > 1 /\ trim(lines[index - 1]) # <<>>))
               THEN << <<>> >> \o ListsFrom(lines, index + 1, FALSE)
             ELSE <<line>> \o ListsFrom(lines, index + 1, inList)
detectAndFormatLists(text) ==
    join(ListsFrom(split(text, NL), 1, FALSE), <<NL>>)

processPage(pageText) ==
    detectAndFormatLists(detectAndFormatSections(normalizeSpacing(pageText)))

\* .replace(/^(.*?)\n/, '$1\n\n'): the first newline is doubled, when no
\* other line terminator stands before it (. does not match one)
DoubleFirstNewline(s) ==
    IF \E i \in DOMAIN s : s[i] = NL
      THEN LET p == CHOOSE i \in DOMAIN s :
                        s[i] = NL /\ \A k \in 1..(i - 1) : s[k] # NL
           IN  IF \E k \in 1..(p - 1) : s[k] = "\r"
                 THEN s
                 ELSE Sub(s, 1, p) \o <<NL>> \o Sub(s, p + 1, Len(s))
      ELSE s

\* .replace(/\n##\s/g, '\n\n## ')
RECURSIVE SpaceHeadersFrom(_, _)
SpaceHeadersFrom(s, i) ==
    IF i > Len(s) THEN <<>>
    ELSE IF MatchAt(s, i, <<NL,"#","#">>) /\ i + 3 <= Len(s) /\ IsSpace(s[i + 3])
      THEN <<NL, NL, "#", "#", " ">> \o SpaceHeadersFrom(s, i + 4)
      ELSE <<s[i]>> \o SpaceHeadersFrom(s, i + 1)

\* .replace(/^-\s*/gm, '- '): ^ is the start of the text or of a line
RECURSIVE DashItemsFrom(_, _)
DashItemsFrom(s, i) ==
    IF i > Len(s) THEN <<>>
    ELSE IF s[i] = "-" /\ (i = 1 \/ s[i - 1] \in {NL, "\r"})
      THEN Str_dash_space \o DashItemsFrom(s, SpaceRunEnd(s, i + 1))
      ELSE <<s[i]>> \o DashItemsFrom(s, i + 1)

\* .replace(/\n{3,}/g, '\n\n')
RECURSIVE CollapseNewlinesFrom(_, _)
CollapseNewlinesFrom(s, i) ==
    IF i > Len(s) THEN <<>>
    ELSE IF s[i] = NL /\ NewlineRunEnd(s, i) - i >= 3
      THEN Str_nlnl \o CollapseNewlinesFrom(s, NewlineRunEnd(s, i))
      ELSE <<s[i]>> \o CollapseNewlinesFrom(s, i + 1)

formatMarkdown(text) ==
    trim(CollapseNewlinesFrom(
           DashItemsFrom(
             SpaceHeadersFrom(DoubleFirstNewline(text), 1), 1), 1))

(***************************************************************************)
(* src/index.ts: the page text extractor and the link locator.             *)
(* A TextItem is [str, x, y, width] (transform[4], transform[5]); width is *)
(* NoWidth when the item has none.  An annotation is [subtype, url, rect]; *)
(* url is the empty string when the annotation has none.                   *)
(***************************************************************************)
NoWidth == 0 - 1

\* a coordinate kept as it is
Round2_Exact(v) == v
\* Math.round(v * 100) / 100, on thousandths.  (A coordinate half-way
\* between two hundredths goes up or down with its binary representation;
\* the coordinates of the model are none of them half-way.)
Round2(v) == ((v + 5) \div 10) * 10

averageCharWidth == 8
estimateCharWidth(text) == Len(text) * averageCharWidth * 1000

\* Map.prototype.set on a Map kept as the sequence of its entries [k, v] in
\* insertion order: an existing key keeps its place
MapHas(m, k) == \E i \in DOMAIN m : m[i].k = k
MapIndex(m, k) == CHOOSE i \in DOMAIN m : m[i].k = k
MapSet(m, k, v) ==
    IF MapHas(m, k)
      THEN [m EXCEPT ![MapIndex(m, k)] = [k |-> k, v |-> v]]
      ELSE Append(m, [k |-> k, v |-> v])
\* Array.from(m.values())
MapValues(m) == [i \in DOMAIN m |-> m[i].v]

\* Array.prototype.sort (stable) as an insertion sort; Before(a, b) is
\* compare(a, b) < 0
RECURSIVE InsertSorted(_, _, _)
InsertSorted(sorted, e, key) ==
    IF sorted = <<>> THEN <<e>>
    ELSE IF key[e] < key[sorted[Len(sorted)]]
      THEN Append(InsertSorted(Sub(sorted, 1, Len(sorted) - 1), e, key),
                  sorted[Len(sorted)])
      ELSE Append(sorted, e)
RECURSIVE SortIdx(_, _)
SortIdx(n, key) ==
    IF n = 0 THEN <<>> ELSE InsertSorted(SortIdx(n - 1, key), n, key)
\* the elements of a in ascending order of key[i] (the key of a[i]), ties
\* in their order in a
SortByKey(a, key) == [i \in DOMAIN a |-> a[SortIdx(Len(a), key)[i]]]

\* the items.forEach of groupTextItemsByLine
RECURSIVE GroupLines(_, _, _)
GroupLines(items, i, lines) ==
    IF i > Len(items) THEN lines
    ELSE LET item == items[i]
             roundedY == Round2(item.y)
             old == IF MapHas(lines, roundedY)
                      THEN lines[MapIndex(lines, roundedY)].v ELSE <<>>
             processed ==
                 [text |-> item.str, x |-> Round2(item.x), y |-> roundedY,
                  width |-> IF item.width # NoWidth THEN item.width
                            ELSE estimateCharWidth(item.str)]
         IN  GroupLines(items, i + 1, MapSet(lines, roundedY, Append(old, processed)))

\* the lines and their items in the order the Map holds them
groupTextItemsByLine_Unsorted(items) == MapValues(GroupLines(items, 1, <<>>))
groupTextItemsByLine(items) ==
    LET lines == GroupLines(items, 1, <<>>)
        byY == SortByKey(lines, [i \in DOMAIN lines |-> 0 - lines[i].k])
    IN  [i \in DOMAIN byY |->
            SortByKey(byY[i].v, [j \in DOMAIN byY[i].v |-> byY[i].v[j].x])]

\* the annotations.forEach of createLinkMap
RECURSIVE LinkMapFrom(_, _, _)
LinkMapFrom(annotations, i, linkMap) ==
    IF i > Len(annotations) THEN linkMap
    ELSE LET ann == annotations[i]
         IN  IF ann.subtype = "Link" /\ ann.url # <<>>
               THEN LinkMapFrom(annotations, i + 1,
                        MapSet(linkMap, [j \in DOMAIN ann.rect |-> Round2(ann.rect[j])],
                               [url |-> ann.url, rect |-> ann.rect]))
               ELSE LinkMapFrom(annotations, i + 1, linkMap)
createLinkMap(annotations) == LinkMapFrom(annotations, 1, <<>>)

margin == 2
isPointInRect(x, y, rect) ==
    /\ x >= rect[1] - margin * 1000
    /\ x <= rect[3] + margin * 1000
    /\ y >= rect[2] - margin * 1000
    /\ y <= rect[4] + margin * 1000

combineText(existing, newText) ==
    IF includes(existing, newText) THEN existing
    ELSE IF includes(newText, existing) THEN newText
    ELSE LET words == splitWs(existing)
             newWords == splitWs(newText)
         IN  IF words[Len(words)] = newWords[1]
               THEN join(Sub(words, 1, Len(words) - 1), <<" ">>) \o <<" ">> \o newText
               ELSE existing \o <<" ">> \o newText

\* |dy| below which a run lies on the line of an existing link
sameLineDy == 2
LinkMatches(l, linkInfo) ==
    /\ l.url = linkInfo.url
    /\ Abs(l.position.y - linkInfo.position.y) < sameLineDy * 1000
    /\ l.position.page = linkInfo.position.page

\* a push of every link, merged with none
addToLinks_Push(links, linkInfo) ==
    Append(links, [text |-> linkInfo.text, url |-> linkInfo.url,
                   position |-> linkInfo.position])
\* addToLinks mutates `links`; the result is the array after the call
addToLinks(links, linkInfo) ==
    IF \E i \in DOMAIN links : LinkMatches(links[i], linkInfo)
      THEN LET e == CHOOSE i \in DOMAIN links :
                        /\ LinkMatches(links[i], linkInfo)
                        /\ \A k \in 1..(i - 1) : ~LinkMatches(links[k], linkInfo)
               existingLink == links[e]
               xDiff == Abs(existingLink.position.x - linkInfo.position.x)
           IN  IF xDiff < estimateCharWidth(existingLink.text) * 2
                 THEN [links EXCEPT ![e] =
                         [text |-> combineText(existingLink.text, linkInfo.text),
                          url |-> existingLink.url,
                          position |->
                              [existingLink.position EXCEPT
                                 !.x = Min(existingLink.position.x, linkInfo.position.x)]]]
                 ELSE links
      ELSE Append(links, [text |-> linkInfo.text, url |-> linkInfo.url,
                          position |-> linkInfo.position])

spacingThreshold == 3

\* the linkMap.forEach of processLine for one item: the links added to
\* currentLinks (a Set of fresh objects, so every add is kept, in order)
RECURSIVE ItemLinks(_, _, _, _)
ItemLinks(item, linkMap, k, pageNumber) ==
    IF k > Len(linkMap) THEN <<>>
    ELSE (IF isPointInRect(item.x, item.y, linkMap[k].v.rect)
            THEN << [text |-> item.text, url |-> linkMap[k].v.url,
                     position |-> [x |-> item.x, y |-> item.y, page |-> pageNumber]] >>
            ELSE <<>>)
         \o ItemLinks(item, linkMap, k + 1, pageNumber)

\* the lineItems.forEach of processLine from index on (1-based), with the
\* loop's variables; the result is [lineText, currentLinks]
RECURSIVE LineFrom(_, _, _, _, _, _, _)
LineFrom(lineItems, linkMap, pageNumber, index, lineText, currentWordParts, currentLinks) ==
    IF index > Len(lineItems)
      THEN [lineText |-> lineText, currentLinks |-> currentLinks]
    ELSE LET item == lineItems[index]
             isLastItem == index = Len(lineItems)
             found == currentLinks \o ItemLinks(item, linkMap, 1, pageNumber)
             gap == IF index > 1
                      THEN item.x - (lineItems[index - 1].x
                                     + estimateCharWidth(lineItems[index - 1].text))
                      ELSE 0
             spaced == index > 1 /\ gap > spacingThreshold * 1000
             text1 == IF spaced THEN lineText \o join(currentWordParts, <<>>) \o <<" ">>
                      ELSE lineText
             parts1 == Append(IF spaced THEN <<>> ELSE currentWordParts, item.text)
         IN  IF isLastItem
               THEN LineFrom(lineItems, linkMap, pageNumber, index + 1,
                             text1 \o join(parts1, <<>>), parts1, found)
               ELSE LineFrom(lineItems, linkMap, pageNumber, index + 1,
                             text1, parts1, found)

RECURSIVE AddAllLinks(_, _, _)
AddAllLinks(links, currentLinks, i) ==
    IF i > Len(currentLinks) THEN links
    ELSE AddAllLinks(addToLinks(links, currentLinks[i]), currentLinks, i + 1)

\* a forEach that stops before the last item of the line
processLine_SkipsLast(lineItems, linkMap, links, pageNumber) ==
    LET r == LineFrom(Sub(lineItems, 1, Len(lineItems) - 1), linkMap, pageNumber,
                      1, <<>>, <<>>, <<>>)
    IN  [text |-> trim(r.lineText),
         links |-> AddAllLinks(links, r.currentLinks, 1)]
\* processLine returns the line's text and mutates `links`: [text, links]
processLine(lineItems, linkMap, links, pageNumber) ==
    LET r == LineFrom(lineItems, linkMap, pageNumber, 1, <<>>, <<>>, <<>>)
    IN  [text |-> trim(r.lineText),
         links |-> AddAllLinks(links, r.currentLinks, 1)]

\* the lines.forEach of processPageContent: [text, links]
RECURSIVE PageFrom(_, _, _, _, _, _)
PageFrom(lines, linkMap, pageNumber, i, text, links) ==
    IF i > Len(lines) THEN [text |-> text, links |-> links]
    ELSE LET r == processLine(lines[i], linkMap, links, pageNumber)
         IN  PageFrom(lines, linkMap, pageNumber, i + 1,
                      text \o r.text \o <<NL>>, r.links)

processPageContent(textContent, annotations, pageNumber) ==
    LET r == PageFrom(groupTextItemsByLine(textContent), createLinkMap(annotations),
                      pageNumber, 1, <<>>, <<>>)
    IN  [text |-> normalizeSpacing(trim(r.text)), links |-> r.links]

(***************************************************************************)
(* Hyperlink splicing.  src/index.ts keeps the method with its whole body  *)
(* commented out, so it returns undefined; its build src/dist/index.js     *)
(* returns the text unchanged; src/index.js and the pdfjs variant splice   *)
(* with a regular expression.  A value that may be undefined is <<>> for   *)
(* undefined and <<s>> for the string s.                                   *)
(***************************************************************************)
Undefined == <<>>
Defined(s) == <<s>>

insertHyperlinks_ts(text, links) == Undefined
insertHyperlinks_dist(text, links) == Defined(text)

\* `[${link.text}](${link.url})`
markdownLink(text, url) == <<"[">> \o text \o <<"]", "(">> \o url \o <<")">>

\* a match of (?<!\[|\]\()T(?!\]|\)) at position i of s
jsLinkMatchAt(s, i, T) ==
    /\ MatchAt(s, i, T)
    /\ ~(i > 1 /\ s[i - 1] = "[")
    /\ ~(i > 2 /\ s[i - 2] = "]" /\ s[i - 1] = "(")
    /\ ~(i + Len(T) <= Len(s) /\ s[i + Len(T)] \in {"]", ")"})

\* a match of (?<!\[)T(?!\]) at position i of s
pdfjsLinkMatchAt(s, i, T) ==
    /\ MatchAt(s, i, T)
    /\ ~(i > 1 /\ s[i - 1] = "[")
    /\ ~(i + Len(T) <= Len(s) /\ s[i + Len(T)] = "]")

\* result.replace(regex, markdownLink) with the g flag: the matches are
\* found left to right in the string before the replacement, none
\* overlapping.  (No text or url of the model holds a `$`, which replace
\* would expand in the replacement string.)
RECURSIVE jsReplaceFrom(_, _, _, _)
jsReplaceFrom(s, i, T, md) ==
    IF i > Len(s) THEN <<>>
    ELSE IF jsLinkMatchAt(s, i, T)
      THEN md \o jsReplaceFrom(s, i + Len(T), T, md)
      ELSE <<s[i]>> \o jsReplaceFrom(s, i + 1, T, md)
RECURSIVE pdfjsReplaceFrom(_, _, _, _)
pdfjsReplaceFrom(s, i, T, md) ==
    IF i > Len(s) THEN <<>>
    ELSE IF pdfjsLinkMatchAt(s, i, T)
      THEN md \o pdfjsReplaceFrom(s, i + Len(T), T, md)
      ELSE <<s[i]>> \o pdfjsReplaceFrom(s, i + 1, T, md)

\* links.sort((a, b) => b.text.length - a.text.length)
sortLinksByLength(links) ==
    SortByKey(links, [i \in DOMAIN links |-> 0 - Len(links[i].text)])

\* the loop over the sorted links of insertHyperlinks (src/index.js)
RECURSIVE jsSpliceFrom(_, _, _)
jsSpliceFrom(result, links, i) ==
    IF i > Len(links) THEN result
    ELSE LET link == links[i]
         IN  IF link.text # <<>> /\ link.url # <<>>
               THEN jsSpliceFrom(
                        jsReplaceFrom(result, 1, link.text,
                                      markdownLink(link.text, link.url)),
                        links, i + 1)
               ELSE jsSpliceFrom(result, links, i + 1)

\* insertHyperlinks of src/index.js (both classes of the file)
insertHyperlinks_js(text, links) ==
    IF links = <<>> THEN text ELSE jsSpliceFrom(text, sortLinksByLength(links), 1)

\* the links.forEach of insertHyperlinks of the pdfjs variant
RECURSIVE pdfjsSpliceFrom(_, _, _)
pdfjsSpliceFrom(result, links, i) ==
    IF i > Len(links) THEN result
    ELSE LET link == links[i]
         IN  IF link.text # <<>> /\ link.url # <<>>
               THEN pdfjsSpliceFrom(
                        pdfjsReplaceFrom(result, 1, link.text,
                                         markdownLink(link.text, link.url)),
                        links, i + 1)
               ELSE pdfjsSpliceFrom(result, links, i + 1)

insertHyperlinks_pdfjs(text, links) ==
    IF links = <<>> THEN text ELSE pdfjsSpliceFrom(text, links, 1)

(***************************************************************************)
(* The documents the converter is run on.  A page is what the PDF library  *)
(* hands to renderPage: its text items and annotations, and which of its   *)
(* two getters throws, if any.                                             *)
(***************************************************************************)
S_NEWS == <<"N","E","W","S">>
S_See == <<"S","e","e">>
S_Home == <<"H","o","m","e">>
S_now == <<"n","o","w",".">>
S_item == <<"-"," ","o","n","e">>
S_two == <<"t","w","o",".">>
S_urlA == <<"h","t","t","p",":","/","/","a">>

Item(str, x, y, width) == [str |-> str, x |-> x, y |-> y, width |-> width]
Annotation(subtype, url, rect) == [subtype |-> subtype, url |-> url, rect |-> rect]

\* "NEWS" above "See Home now.", the items not in reading order, "Home"
\* under a link annotation
Page1 ==
    [throws |-> "none",
     items |-> << Item(S_Home, 40000, 680004, 32000),
                  Item(S_NEWS, 0, 700000, NoWidth),
                  Item(S_now, 80000, 680001, NoWidth),
                  Item(S_See, 0, 680000, NoWidth) >>,
     annotations |-> << Annotation("Link", S_urlA, <<38000, 678000, 74000, 690000>>) >>]
\* a list item and a line after it, and an annotation that is no link
Page2 ==
    [throws |-> "none",
     items |-> << Item(S_item, 0, 700000, NoWidth),
                  Item(S_two, 0, 680000, NoWidth) >>,
     annotations |-> << Annotation("Widget", <<>>, <<0, 0, 10000, 10000>>) >>]
BrokenText == [throws |-> "getTextContent", items |-> <<>>, annotations |-> <<>>]

PagePool == {Page1, Page2, BrokenText}

\* the longest document and the number of convert calls of a run
MaxPages == 2
MaxCalls == 2

RECURSIVE SeqsUpTo(_, _)
SeqsUpTo(S, n) ==
    IF n = 0 THEN {<<>>}
    ELSE LET shorter == SeqsUpTo(S, n - 1)
         IN  shorter \cup {Append(q, e) : q \in {r \in shorter : Len(r) = n - 1}, e \in S}
Docs == SeqsUpTo(PagePool, MaxPages) \ {<<>>}

\* a buffer is the bytes of a document, or bytes the PDF library rejects
Buffers == {[valid |-> TRUE, doc |-> d] : d \in Docs} \cup {[valid |-> FALSE, doc |-> <<>>]}

NoPath == "null"
OutputPaths == {NoPath, "out.md"}

\* the messages of the errors thrown by fs and by the PDF library
ReadCause == <<"ENOENT: no such file or directory">>
DecodeCause == <<"Invalid PDF structure">>
WriteCause == <<"EACCES: permission denied">>

(***************************************************************************)
(* The converter instance and the convert calls running on it.             *)
(***************************************************************************)
VARIABLES
    build,        \* which insertHyperlinks runs: src/index.ts or src/dist/index.js
    options,      \* this.options
    pageTexts,    \* this.pageTexts, a Map pageNumber -> text
    hyperlinks,   \* this.hyperlinks, a Map pageNumber -> LinkInfo[]
    calls,        \* the convertFile / convertBuffer calls, by call number
    written,      \* the files written by fs.writeFileSync, in order
    splice,       \* one run of an insertHyperlinks on a text and its links
    group,        \* one run of groupTextItemsByLine on the items of a page
    line,         \* one run of processLine on the runs of a line and the page's annotations
    format,       \* one run of a formatter function on a text
    added,        \* the links array of a page and the addToLinks calls made on it
    combine       \* one run of combineText on two link texts

vars == <<build, options, pageTexts, hyperlinks, calls, written, splice, group, line, format,
          added, combine>>

\* splice and group when no function is run on its own
NoSplice == [variant |-> "none", text |-> <<>>, links |-> <<>>, passes |-> 0,
             before |-> Undefined, out |-> Undefined]
NoGroup == [items |-> <<>>, grouped |-> FALSE, lines |-> <<>>]
NoLine == [items |-> <<>>, annotations |-> <<>>, processed |-> FALSE,
           linkMap |-> <<>>, text |-> <<>>, links |-> <<>>]
NoFormat == [fn |-> "none", text |-> <<>>, passes |-> 0, before |-> <<>>, out |-> <<>>]
NoAdded == [links |-> <<>>, adds |-> 0]
NoCombine == [existing |-> <<>>, newText |-> <<>>, combined |-> FALSE, out |-> <<>>]

CallIds == 1..MaxCalls

IdleCall ==
    [pc |-> "idle", kind |-> "buffer", buffer |-> [valid |-> FALSE, doc |-> <<>>],
     outputPath |-> NoPath, next |-> 1, result |-> Undefined, error |-> <<>>,
     cause |-> <<>>, readable |-> TRUE, pagesRead |-> <<>>, linksRead |-> <<>>,
     overlapped |-> FALSE]

\* new PDFToMarkdown(options): the defaults, overridden by the options given
constructorOptions(given) ==
    given @@ [preserveFormatting |-> TRUE, preserveLinks |-> TRUE,
              customPageRender |-> TRUE]

\* the options objects the constructor is called with: none, and both
\* documented options switched off
OptionsGiven == {<<>>, [preserveFormatting |-> FALSE, preserveLinks |-> FALSE]}

Init ==
    /\ build \in {"ts", "dist"}
    /\ \E given \in OptionsGiven :
           options = [name \in {"preserveFormatting", "preserveLinks", "customPageRender"} |->
                         constructorOptions(given)[name]]
    /\ pageTexts = <<>>
    /\ hyperlinks = <<>>
    /\ calls = [c \in CallIds |-> IdleCall]
    /\ written = <<>>
    /\ added = NoAdded
    /\ combine = NoCombine
    /\ splice = NoSplice
    /\ group = NoGroup
    /\ line = NoLine
    /\ format = NoFormat

\* a catch that drops the cause's message
BufferError_NoCause(cause) == <<"Buffer conversion failed: ", "unknown error">>
\* the message of the Error convertBuffer / convertFile throw for a cause
BufferError(cause) == <<"Buffer conversion failed: ">> \o cause
FileError(cause) == <<"File conversion failed: ">> \o cause

\* the rejection of the call: convertBuffer wraps the cause, and convertFile
\* wraps what convertBuffer threw
RejectedWith(kind, cause) ==
    IF kind = "file" THEN FileError(BufferError(cause)) ELSE BufferError(cause)

Pending(c) == calls[c].pc = "pending"

\* the calls are numbered in the order they are made
NextCall(c) == calls[c].pc = "idle" /\ \A o \in 1..(c - 1) : calls[o].pc # "idle"

\* a call starts while another is awaiting its pages: both overlap
MarkOverlap(cs, c) ==
    IF \E o \in DOMAIN cs \ {c} : cs[o].pc = "pending"
      THEN [o \in DOMAIN cs |->
               IF o = c \/ cs[o].pc = "pending" THEN [cs[o] EXCEPT !.overlapped = TRUE]
               ELSE cs[o]]
      ELSE cs

\* convertBuffer(buffer, outputPath) up to its await of pdf(buffer, ...)
convertBuffer(c, buffer, outputPath) ==
    /\ NextCall(c)
    /\ calls' = MarkOverlap(
                  [calls EXCEPT ![c] = [@ EXCEPT !.pc = "pending", !.kind = "buffer",
                                                 !.buffer = buffer,
                                                 !.outputPath = outputPath]], c)
    /\ UNCHANGED <<added, combine, line, format, splice, group, build, options, pageTexts, hyperlinks, written>>

\* convertFile(pdfPath, outputPath) of a readable file: readFileSync, then
\* convertBuffer up to its await
convertFile(c, buffer, outputPath) ==
    /\ NextCall(c)
    /\ calls' = MarkOverlap(
                  [calls EXCEPT ![c] = [@ EXCEPT !.pc = "pending", !.kind = "file",
                                                 !.buffer = buffer,
                                                 !.outputPath = outputPath]], c)
    /\ UNCHANGED <<added, combine, line, format, splice, group, build, options, pageTexts, hyperlinks, written>>

\* convertFile(pdfPath, outputPath) of a file readFileSync cannot read
convertFileUnreadable(c, outputPath) ==
    /\ NextCall(c)
    /\ calls' = [calls EXCEPT ![c] = [@ EXCEPT !.pc = "rejected", !.kind = "file",
                                               !.outputPath = outputPath,
                                               !.readable = FALSE,
                                               !.cause = ReadCause,
                                               !.error = FileError(ReadCause)]]
    /\ UNCHANGED <<added, combine, line, format, splice, group, build, options, pageTexts, hyperlinks, written>>

\* pdf(buffer, ...) rejects: the catch of convertBuffer (and of convertFile)
decodeFails(c) ==
    /\ Pending(c)
    /\ ~calls[c].buffer.valid
    /\ calls' = [calls EXCEPT ![c] = [@ EXCEPT !.pc = "rejected",
                                               !.cause = DecodeCause,
                                               !.error = RejectedWith(calls[c].kind, DecodeCause)]]
    /\ UNCHANGED <<added, combine, line, format, splice, group, build, options, pageTexts, hyperlinks, written>>

\* renderPage(pageData) for the next page of the call's document (the PDF
\* library renders the pages of a document one after the other, from 1):
\* a page whose getter throws stores nothing and renders as ''
renderPage(c) ==
    /\ Pending(c)
    /\ calls[c].buffer.valid
    /\ calls[c].next <= Len(calls[c].buffer.doc)
    /\ LET pageNumber == calls[c].next
           pageData == calls[c].buffer.doc[pageNumber]
           processedContent ==
               processPageContent(pageData.items, pageData.annotations, pageNumber)
       IN  /\ IF pageData.throws = "none"
                THEN /\ pageTexts' = MapSet(pageTexts, pageNumber, processedContent.text)
                     /\ hyperlinks' = MapSet(hyperlinks, pageNumber, processedContent.links)
                ELSE UNCHANGED <<pageTexts, hyperlinks>>
           /\ calls' = [calls EXCEPT ![c].next = pageNumber + 1]
    /\ UNCHANGED <<added, combine, line, format, splice, group, build, options, written>>

\* this.hyperlinks.get(n) || []
LinksOf(hl, n) == IF MapHas(hl, n) THEN hl[MapIndex(hl, n)].v ELSE <<>>

insertHyperlinks(b, text, links) ==
    IF b = "ts" THEN insertHyperlinks_ts(text, links)
    ELSE insertHyperlinks_dist(text, links)

\* Array.prototype.join writes an undefined element as the empty string
JoinElement(r) == IF r = Undefined THEN <<>> ELSE r[1]

\* processContent(pdfData) on the Maps pt (pageTexts) and hl (hyperlinks)
processContent(b, pt, hl) ==
    LET pages == MapValues(pt)
        processedPages ==
            [index \in DOMAIN pages |->
                JoinElement(insertHyperlinks(b, processPage(pages[index]),
                                             LinksOf(hl, index)))]
    IN  formatMarkdown(join(processedPages, Str_nlnl))

\* pdf(buffer, ...) has resolved: processContent, the optional write, return
finish(c) ==
    /\ Pending(c)
    /\ calls[c].buffer.valid
    /\ calls[c].next > Len(calls[c].buffer.doc)
    /\ LET markdown == processContent(build, pageTexts, hyperlinks)
       IN  /\ calls' = [calls EXCEPT ![c] = [@ EXCEPT !.pc = "done",
                                                      !.result = Defined(markdown),
                                                      !.pagesRead = pageTexts,
                                                      !.linksRead = hyperlinks]]
           /\ written' = IF calls[c].outputPath # NoPath
                           THEN Append(written, [path |-> calls[c].outputPath,
                                                 data |-> markdown, call |-> c])
                           ELSE written
    /\ UNCHANGED <<added, combine, line, format, splice, group, build, options, pageTexts, hyperlinks>>

\* as finish, but fs.writeFileSync throws: the catch of convertBuffer
finishWriteFails(c) ==
    /\ Pending(c)
    /\ calls[c].buffer.valid
    /\ calls[c].next > Len(calls[c].buffer.doc)
    /\ calls[c].outputPath # NoPath
    /\ calls' = [calls EXCEPT ![c] = [@ EXCEPT !.pc = "rejected",
                                               !.cause = WriteCause,
                                               !.pagesRead = pageTexts,
                                               !.linksRead = hyperlinks,
                                               !.error = RejectedWith(calls[c].kind, WriteCause)]]
    /\ UNCHANGED <<added, combine, line, format, splice, group, build, options, pageTexts, hyperlinks, written>>

Next ==
    \E c \in CallIds :
        \/ \E b \in Buffers, o \in OutputPaths : convertBuffer(c, b, o)
        \/ \E b \in Buffers, o \in OutputPaths : convertFile(c, b, o)
        \/ \E o \in OutputPaths : convertFileUnreadable(c, o)
        \/ decodeFails(c)
        \/ renderPage(c)
        \/ finish(c)
        \/ finishWriteFails(c)

Spec == Init /\ [][Next]_vars

(***************************************************************************)
(* What a call's own document alone would give: the Maps of a fresh        *)
(* instance after rendering the pages of doc, and the markdown of them.    *)
(***************************************************************************)
Started(c) == calls[c].pc # "idle"
Done(c) == calls[c].pc = "done"
Rejected(c) == calls[c].pc = "rejected"
Result(c) == calls[c].result[1]
DocOf(c) == calls[c].buffer.doc
Throws(page) == page.throws # "none"
NoBrokenPage(c) == \A n \in DOMAIN DocOf(c) : ~Throws(DocOf(c)[n])
Sequential == \A c \in CallIds : ~calls[c].overlapped

RECURSIVE OwnTexts(_, _)
OwnTexts(doc, n) ==
    IF n = 0 THEN <<>>
    ELSE IF Throws(doc[n]) THEN OwnTexts(doc, n - 1)
    ELSE MapSet(OwnTexts(doc, n - 1), n,
                processPageContent(doc[n].items, doc[n].annotations, n).text)
RECURSIVE OwnLinks(_, _)
OwnLinks(doc, n) ==
    IF n = 0 THEN <<>>
    ELSE IF Throws(doc[n]) THEN OwnLinks(doc, n - 1)
    ELSE MapSet(OwnLinks(doc, n - 1), n,
                processPageContent(doc[n].items, doc[n].annotations, n).links)
OwnMarkdown(c) ==
    processContent(build, OwnTexts(DocOf(c), Len(DocOf(c))), OwnLinks(DocOf(c), Len(DocOf(c))))

\* the document with one section per page of doc, in page order: the
\* page's formatted text (with its links spliced in when spliced), and the
\* empty string for a page that threw
IsolatedMarkdown(doc, spliced) ==
    formatMarkdown(join(
        [n \in DOMAIN doc |->
            IF Throws(doc[n]) THEN <<>>
            ELSE LET r == processPageContent(doc[n].items, doc[n].annotations, n)
                 IN  IF spliced THEN insertHyperlinks_js(processPage(r.text), r.links)
                     ELSE processPage(r.text)],
        Str_nlnl))

\* C1 (as claimed, for the build src/dist/index.js): a call on a document
\* with a page whose getter throws is not rejected for it, and returns the
\* document made of the sections of its other pages, with the empty string
\* in the place of the page that threw and nothing else.
C1_PageFailureIsolation ==
    \A c \in CallIds :
        (/\ build = "dist"
         /\ calls[c].pc \in {"done", "rejected"}
         /\ calls[c].buffer.valid
         /\ calls[c].cause # WriteCause
         /\ \E n \in DOMAIN DocOf(c) : Throws(DocOf(c)[n]))
        => /\ Done(c)
           /\ Result(c) \in {IsolatedMarkdown(DocOf(c), FALSE),
                             IsolatedMarkdown(DocOf(c), TRUE)}

\* C2 (as claimed): when the calls on an instance run one after the other,
\* the markdown a call returns is built from the pages of its own document
\* alone, as on a fresh instance.
C2_NoStateOutlivesCall ==
    \A c \in CallIds :
        (/\ Done(c)
         /\ Sequential
         /\ \A o \in CallIds : NoBrokenPage(o))
        => Result(c) = OwnMarkdown(c)

\* C3 (as claimed): when two calls overlap on one instance, each returns
\* the markdown of its own document.
C3_NoCrossCallContamination ==
    \A c \in CallIds :
        (/\ Done(c)
         /\ calls[c].overlapped
         /\ \A o \in CallIds : NoBrokenPage(o))
        => Result(c) = OwnMarkdown(c)

\* the entries of a Map in ascending order of their keys
SortedByPage(m) == SortByKey(m, [i \in DOMAIN m |-> m[i].k])

\* C4 (as claimed): the document returned joins the stored pages in
\* ascending page number, whatever the order in which they were stored.
C4_PageOrderAscending ==
    \A c \in CallIds :
        Done(c) =>
            Result(c) = processContent(build, SortedByPage(calls[c].pagesRead),
                                       calls[c].linksRead)

\* C5 (as claimed): every link collected for a page, with a text and a url,
\* whose text occurs in the page's formatted text, is in the markdown
\* returned as [text](url).
C5_NoLinkDropped ==
    \A c \in CallIds :
        Done(c) =>
            \A i \in DOMAIN calls[c].pagesRead :
                LET entry == calls[c].pagesRead[i]
                    links == LinksOf(calls[c].linksRead, entry.k)
                IN  \A j \in DOMAIN links :
                        (/\ trim(links[j].text) # <<>>
                         /\ links[j].url # <<>>
                         /\ includes(processPage(entry.v), links[j].text))
                        => includes(Result(c),
                                    markdownLink(trim(links[j].text), links[j].url))

\* the calls whose input cannot be read or decoded
InputError(c) == Started(c) /\ (~calls[c].readable \/ ~calls[c].buffer.valid)
InputCause(c) == IF ~calls[c].readable THEN ReadCause ELSE DecodeCause

\* C8: a call whose file cannot be read or whose bytes cannot be decoded
\* never returns markdown and never writes a file, and when it has ended it
\* is rejected with one error whose message ends in the cause's message,
\* after the prefix of each wrapping catch.
C8_InputErrorsFatal ==
    \A c \in CallIds :
        InputError(c) =>
            /\ ~Done(c)
            /\ calls[c].result = Undefined
            /\ \A w \in DOMAIN written : written[w].call # c
            /\ Rejected(c) =>
                  /\ includes(calls[c].error, InputCause(c))
                  /\ Len(calls[c].error) > Len(InputCause(c))
                  /\ calls[c].error[1] \in {"Buffer conversion failed: ",
                                            "File conversion failed: "}

\* a file of undecodable bytes has been given to convertFile with an output
\* path, and the call is rejected
C8_Witness ==
    \E c \in CallIds :
        /\ Rejected(c)
        /\ calls[c].kind = "file"
        /\ calls[c].readable
        /\ ~calls[c].buffer.valid
        /\ calls[c].outputPath # NoPath

Str_hashes == <<"#","#"," ">>

\* C9 (as claimed, for the build src/dist/index.js): with preserveFormatting
\* false no header is written, and with preserveLinks false no link is
\* located for any page.
C9_OptionsHonoured ==
    \A c \in CallIds :
        (Done(c) /\ build = "dist") =>
            /\ ~options.preserveFormatting => ~includes(Result(c), Str_hashes)
            /\ ~options.preserveLinks =>
                  \A i \in DOMAIN calls[c].linksRead : calls[c].linksRead[i].v = <<>>

(***************************************************************************)
(* insertHyperlinks on its own: one variant of the method is run on a text *)
(* and a list of links, and then again on what it returned.                *)
(***************************************************************************)
MaxPasses == 2

T_see == S_See \o <<" ">> \o S_Home \o <<" ">> \o S_now
T_twice == S_Home \o <<" ","o","r"," ">> \o S_Home
T_linked == markdownLink(S_Home, S_urlA)
T_inside == markdownLink(<<"G","o"," ">> \o S_Home \o <<" ">> \o S_now, S_urlA)
T_paren == <<"(">> \o S_Home \o <<")">>
S_io == <<"a",".","i","o">>
S_urlIo == <<"h","t","t","p",":","/","/","a",".","i","o","/">>
T_io == <<"a","t"," ">> \o S_io

\* 'Go Home now.', a link text that holds the link text 'Home'
S_goHomeNow == <<"G","o"," ">> \o S_Home \o <<" ">> \o S_now
S_urlB == <<"h","t","t","p",":","/","/","b">>
T_go == S_See \o <<":"," ">> \o S_goHomeNow

Link(text, url) == [text |-> text, url |-> url, position |-> [x |-> 0, y |-> 0, page |-> 1]]
SpliceTexts == {T_see, T_twice, T_linked, T_inside, T_paren, T_io, T_go}
SpliceLinks ==
    {<<>>, <<Link(S_Home, S_urlA)>>, <<Link(S_io, S_urlIo)>>, <<Link(S_Home, <<>>)>>,
     <<Link(S_io, S_urlIo), Link(S_Home, S_urlA)>>,
     <<Link(S_Home, S_urlA), Link(S_goHomeNow, S_urlB)>>}

InitSplice ==
    /\ build = "dist"
    /\ options = constructorOptions(<<>>)
    /\ pageTexts = <<>>
    /\ hyperlinks = <<>>
    /\ calls = [c \in CallIds |-> IdleCall]
    /\ written = <<>>
    /\ added = NoAdded
    /\ combine = NoCombine
    /\ group = NoGroup
    /\ line = NoLine
    /\ format = NoFormat
    /\ \E t \in SpliceTexts, l \in SpliceLinks :
           splice = [NoSplice EXCEPT !.text = t, !.links = l]

\* the text a pass is given: the text of the run, then what the pass before
\* returned
SpliceInput == IF splice.passes = 0 THEN Defined(splice.text) ELSE splice.out

SplicePass(variant, out) ==
    /\ splice.variant \in {"none", variant}
    /\ splice.passes < MaxPasses
    /\ splice' = [splice EXCEPT !.variant = variant, !.passes = @ + 1,
                                !.before = splice.out, !.out = out]
    /\ UNCHANGED <<added, combine, build, options, pageTexts, hyperlinks, calls, written, group, line, format>>

spliceTs ==
    /\ splice.variant \in {"none", "ts"}
    /\ SplicePass("ts", insertHyperlinks_ts(SpliceInput, splice.links))
spliceDist ==
    /\ SpliceInput # Undefined
    /\ SplicePass("dist", insertHyperlinks_dist(SpliceInput[1], splice.links))
spliceJs ==
    /\ SpliceInput # Undefined
    /\ SplicePass("js", Defined(insertHyperlinks_js(SpliceInput[1], splice.links)))
splicePdfjs ==
    /\ SpliceInput # Undefined
    /\ SplicePass("pdfjs", Defined(insertHyperlinks_pdfjs(SpliceInput[1], splice.links)))

NextSplice == spliceTs \/ spliceDist \/ spliceJs \/ splicePdfjs

SpecSplice == InitSplice /\ [][NextSplice]_vars

\* T at position i of s, as a whole word
WholeWordAt(s, i, T) ==
    /\ MatchAt(s, i, T)
    /\ i = 1 \/ ~IsWordChar(s[i - 1])
    /\ i + Len(T) > Len(s) \/ ~IsWordChar(s[i + Len(T)])
\* the number of places of s where sub is
CountOf(s, sub) == Cardinality({i \in DOMAIN s : MatchAt(s, i, sub)})
\* s with the n characters at position i replaced by md
ReplacedAt(s, i, n, md) == Sub(s, 1, i - 1) \o md \o Sub(s, i + n, Len(s))

\* C6 (as claimed, for src/index.js): run once on a plain
\* text with one link whose text is a whole word of it, insertHyperlinks
\* returns the text with one occurrence of the link text replaced by
\* [text](url) and nothing else changed, so that [text](url) is in it once.
C6_ExactLinkSubstitution ==
    (/\ splice.variant = "js"
     /\ splice.passes = 1
     /\ Len(splice.links) = 1
     /\ splice.links[1].text # <<>>
     /\ splice.links[1].url # <<>>
     /\ ~includes(splice.text, <<"[">>)
     /\ \E i \in DOMAIN splice.text : WholeWordAt(splice.text, i, splice.links[1].text))
    => LET link == splice.links[1]
           md == markdownLink(link.text, link.url)
       IN  /\ splice.out # Undefined
           /\ \E i \in DOMAIN splice.text :
                  /\ MatchAt(splice.text, i, link.text)
                  /\ splice.out[1] = ReplacedAt(splice.text, i, Len(link.text), md)
           /\ CountOf(splice.out[1], md) = 1

\* the n characters at position i of s lie inside a markdown link [..](..)
InsideLink(s, i, n) ==
    \E a \in 1..i, b \in (i + n - 1)..Len(s) :
        /\ s[a] = "["
        /\ s[b] = ")"
        /\ \E j \in (a + 1)..(b - 2) :
               /\ s[j] = "]"
               /\ s[j + 1] = "("
               /\ \A k \in (a + 1)..(j - 1) : s[k] \notin {"[", "]"}
               /\ \A k \in (j + 2)..(b - 1) : s[k] \notin {"(", ")"}
AllInsideLinks(s, links) ==
    \A l \in DOMAIN links :
        \A i \in DOMAIN s :
            MatchAt(s, i, links[l].text) => InsideLink(s, i, Len(links[l].text))

\* C7 (as claimed, for src/index.js and the pdfjs variant): insertHyperlinks
\* returns a text unchanged when every occurrence of a link text in it is
\* inside a markdown link, and run again on what it returned with the same
\* links it returns that unchanged.
C7_NoDoubleWrapping ==
    splice.variant \in {"js", "pdfjs"} =>
        /\ (splice.passes = 1 /\ AllInsideLinks(splice.text, splice.links))
               => splice.out = Defined(splice.text)
        /\ splice.passes = 2 => splice.out = splice.before

\* every [ of s is closed by a ) with no other [ before it: no markdown link
\* of s stands inside the bracketed text or the url of another
NoNestedLink(s) ==
    \A i \in DOMAIN s :
        s[i] = "[" =>
            \E j \in (i + 1)..Len(s) :
                s[j] = ")" /\ \A k \in (i + 1)..j : s[k] # "["

\* C21 (as claimed, for src/index.js): run once on a plain text with links
\* that all have a text and a url, insertHyperlinks returns a text in which
\* no markdown link stands inside another, and a link text of the page that
\* holds a shorter link text is wrapped whole as [text](url).
C21_LongerLinkTextsFirst ==
    (/\ splice.variant = "js"
     /\ splice.passes = 1
     /\ ~includes(splice.text, <<"[">>)
     /\ \A l \in DOMAIN splice.links :
            splice.links[l].text # <<>> /\ splice.links[l].url # <<>>)
    => /\ NoNestedLink(splice.out[1])
       /\ \A l, m \in DOMAIN splice.links :
              (/\ Len(splice.links[m].text) < Len(splice.links[l].text)
               /\ includes(splice.links[l].text, splice.links[m].text)
               /\ includes(splice.text, splice.links[l].text))
              => includes(splice.out[1],
                          markdownLink(splice.links[l].text, splice.links[l].url))

(***************************************************************************)
(* groupTextItemsByLine on its own, on the text items of a page.           *)
(***************************************************************************)
MaxItems == 2

GroupXs == {0, 50000}
GroupYs == {100000, 100004, 100006, 100020, 110000}
\* the pages of up to MaxItems items, the i-th with the i-th letter as text
GroupPages ==
    UNION {[1..n -> GroupXs \X GroupYs] : n \in 1..MaxItems}

InitGroup ==
    /\ build = "dist"
    /\ options = constructorOptions(<<>>)
    /\ pageTexts = <<>>
    /\ hyperlinks = <<>>
    /\ calls = [c \in CallIds |-> IdleCall]
    /\ written = <<>>
    /\ added = NoAdded
    /\ combine = NoCombine
    /\ splice = NoSplice
    /\ line = NoLine
    /\ format = NoFormat
    /\ \E page \in GroupPages :
           group = [NoGroup EXCEPT
                       !.items = [i \in DOMAIN page |->
                                     Item(<<LowerSeq[i]>>, page[i][1], page[i][2], NoWidth)]]

groupItems ==
    /\ ~group.grouped
    /\ group' = [group EXCEPT !.grouped = TRUE,
                              !.lines = groupTextItemsByLine(group.items)]
    /\ UNCHANGED <<added, combine, build, options, pageTexts, hyperlinks, calls, written, splice, line, format>>

NextGroup == groupItems

SpecGroup == InitGroup /\ [][NextGroup]_vars

\* the lines of the result that hold the i-th item of the page
LinesOf(i) ==
    {l \in DOMAIN group.lines :
        \E k \in DOMAIN group.lines[l] : group.lines[l][k].text = group.items[i].str}
SameLine(i, j) == LinesOf(i) \cap LinesOf(j) # {}
\* the hundredth nearest to a coordinate in thousandths
Hundredth(v) == CHOOSE h \in 0..(v \div 10 + 1) : 10 * h - 5 <= v /\ v < 10 * h + 5

PlacesOf(i) ==
    {p \in UNION {{<<l, k>> : k \in DOMAIN group.lines[l]} : l \in DOMAIN group.lines} :
        group.lines[p[1]][p[2]].text = group.items[i].str}
PlaceCount ==
    Cardinality(UNION {{<<l, k>> : k \in DOMAIN group.lines[l]} : l \in DOMAIN group.lines})

\* C24: groupTextItemsByLine returns the lines in strictly descending y, the
\* runs of each line in non-decreasing x, and every input run in exactly one
\* place of one line, whatever the order of the runs in the input.
C24_LineOrderAndPartition ==
    group.grouped =>
        /\ \A l \in DOMAIN group.lines : group.lines[l] # <<>>
        /\ \A l \in 1..(Len(group.lines) - 1) :
               \A a \in DOMAIN group.lines[l], b \in DOMAIN group.lines[l + 1] :
                   group.lines[l][a].y > group.lines[l + 1][b].y
        /\ \A l \in DOMAIN group.lines :
               \A k \in 1..(Len(group.lines[l]) - 1) :
                   group.lines[l][k].x <= group.lines[l][k + 1].x
        /\ \A i \in DOMAIN group.items : Cardinality(PlacesOf(i)) = 1
        /\ PlaceCount = Len(group.items)
        /\ \A i, j \in DOMAIN group.items :
               group.items[i].y - group.items[j].y > 10
               => \A p \in PlacesOf(i), q \in PlacesOf(j) : p[1] < q[1]

\* two items have been grouped, the lower one given first: the result has
\* two lines, and the first of them holds the item given second
C24_Witness ==
    /\ group.grouped
    /\ Len(group.items) = 2
    /\ group.items[2].y > group.items[1].y + 1000
    /\ Len(group.lines) = 2
    /\ group.lines[1][1].text = group.items[2].str

(***************************************************************************)
(* One instance used again and again: each convertBuffer call is awaited   *)
(* before the next is made.                                                *)
(***************************************************************************)
RepeatCalls == 3
RepeatIds == 1..RepeatCalls

InitRepeat ==
    /\ build \in {"ts", "dist"}
    /\ options = constructorOptions(<<>>)
    /\ pageTexts = <<>>
    /\ hyperlinks = <<>>
    /\ calls = [c \in RepeatIds |-> IdleCall]
    /\ written = <<>>
    /\ added = NoAdded
    /\ combine = NoCombine
    /\ splice = NoSplice
    /\ group = NoGroup
    /\ line = NoLine
    /\ format = NoFormat

\* convertBuffer(buffer) made when no other call is awaiting its pages
convertBufferAwaited(c, buffer) ==
    /\ \A o \in DOMAIN calls : ~Pending(o)
    /\ buffer.valid
    /\ convertBuffer(c, buffer, NoPath)

NextRepeat ==
    \E c \in RepeatIds :
        \/ \E b \in Buffers : convertBufferAwaited(c, b)
        \/ renderPage(c)
        \/ finish(c)

SpecRepeat == InitRepeat /\ [][NextRepeat]_vars

\* C14 (as claimed): two convertBuffer calls on the same bytes, made on one
\* instance, return the same markdown.
C14_RoundTripStability ==
    \A c1, c2 \in DOMAIN calls :
        (/\ calls[c1].pc = "done"
         /\ calls[c2].pc = "done"
         /\ calls[c1].buffer = calls[c2].buffer)
        => calls[c1].result = calls[c2].result

\* the link list stored for page number p, if any
StoredLinks(hl, p) == IF MapHas(hl, p) THEN Defined(hl[MapIndex(hl, p)].v) ELSE Undefined

\* C17 (as claimed): for every page text processContent reads from
\* pageTexts, the link list it looks up for it is the list stored under
\* that page's own number.
C17_LinksStayWithPage ==
    \A c \in CallIds :
        Done(c) =>
            \A index \in DOMAIN calls[c].pagesRead :
                StoredLinks(calls[c].linksRead, calls[c].pagesRead[index].k)
                    = Defined(LinksOf(calls[c].linksRead, index))

(***************************************************************************)
(* processLine on its own: the runs of one line (all at the same y) go     *)
(* through groupTextItemsByLine, the page's annotations through            *)
(* createLinkMap, and processLine runs on the line with no link collected  *)
(* yet.                                                                    *)
(***************************************************************************)
S_Go == <<"G","o">>
S_ogle == <<"o","g","l","e">>
S_urlG == <<"h","t","t","p",":","/","/","g",".","c","o","m">>
LineY == 100 * 1000

\* the first run stands at x = 0, with no width or a reported width
FirstRuns == {Item(S_Go, 0, LineY, w) : w \in {NoWidth, 10 * 1000, 16 * 1000}}
\* the second run, when there is one
SecondRuns ==
    {Item(S_ogle, x, LineY, w) :
        x \in {16 * 1000, 18 * 1000, 20 * 1000, 40 * 1000}, w \in {NoWidth, 30 * 1000}}
\* the third run, when there is one: next to the second or far from it
S_Maps == <<"M","a","p","s">>
ThirdRuns == {Item(S_Maps, x, LineY, NoWidth) : x \in {74 * 1000, 110 * 1000}}
\* the runs of a line in reading order, and three runs with the last given first
LineRuns ==
    {<<a>> : a \in FirstRuns} \cup {<<a, b>> : a \in FirstRuns, b \in SecondRuns}
    \cup {<<a, b, c>> : a \in FirstRuns, b \in SecondRuns, c \in ThirdRuns}
    \cup {<<c, a, b>> : a \in FirstRuns, b \in SecondRuns, c \in ThirdRuns}

\* a rectangle over both runs, the same with its corners the other way
\* round, and a rectangle over the first run only
RectBoth == <<0, 95 * 1000, 60 * 1000, 105 * 1000>>
RectFirst == <<0, 95 * 1000, 10 * 1000, 105 * 1000>>
SwapCorners(rect) == <<rect[3], rect[4], rect[1], rect[2]>>
\* and lists of two annotations: one that is no link, or a link without a
\* url, before a link; and two links over the same rectangle
LineAnnotations ==
    {<<>>,
     <<Annotation("Link", S_urlG, RectBoth)>>,
     <<Annotation("Link", S_urlG, SwapCorners(RectBoth))>>,
     <<Annotation("Link", S_urlG, RectFirst)>>,
     <<Annotation("Widget", S_urlA, RectBoth), Annotation("Link", S_urlG, RectFirst)>>,
     <<Annotation("Link", <<>>, RectBoth), Annotation("Link", S_urlG, RectFirst)>>,
     <<Annotation("Link", S_urlG, RectBoth), Annotation("Link", S_urlA, RectBoth)>>}

InitLine ==
    /\ build = "dist"
    /\ options = constructorOptions(<<>>)
    /\ pageTexts = <<>>
    /\ hyperlinks = <<>>
    /\ calls = [c \in CallIds |-> IdleCall]
    /\ written = <<>>
    /\ added = NoAdded
    /\ combine = NoCombine
    /\ splice = NoSplice
    /\ group = NoGroup
    /\ format = NoFormat
    /\ \E runs \in LineRuns, anns \in LineAnnotations :
           line = [NoLine EXCEPT !.items = runs, !.annotations = anns]

\* what processLine gives for the runs and the annotations: [text, links]
LineResult(items, annotations) ==
    processLine(groupTextItemsByLine(items)[1], createLinkMap(annotations), <<>>, 1)

processLineRuns ==
    /\ ~line.processed
    /\ line' = [line EXCEPT !.processed = TRUE,
                            !.linkMap = createLinkMap(line.annotations),
                            !.text = LineResult(line.items, line.annotations).text,
                            !.links = LineResult(line.items, line.annotations).links]
    /\ UNCHANGED <<added, combine, build, options, pageTexts, hyperlinks, calls, written, splice, group, format>>

NextLine == processLineRuns

SpecLine == InitLine /\ [][NextLine]_vars

\* a line of two runs that both lie in the rectangle of the one annotation
TwoRunsInOneLink ==
    /\ line.processed
    /\ Len(line.items) = 2
    /\ Len(line.annotations) = 1
    /\ \A i \in 1..2 :
           isPointInRect(line.items[i].x, line.items[i].y, line.annotations[1].rect)

\* C11 (as claimed): when two runs in one link rectangle are joined by
\* processLine without a space, the links hold exactly one link for the
\* url, and its text is the two runs joined without a space.
C11_MultiRunLinkMerge ==
    (/\ TwoRunsInOneLink
     /\ line.text = line.items[1].str \o line.items[2].str)
    => /\ Len(line.links) = 1
       /\ line.links[1].url = line.annotations[1].url
       /\ line.links[1].text = line.items[1].str \o line.items[2].str
       /\ includes(line.text, line.links[1].text)

\* C18 (as claimed): when the second run of a link lies on the line of the
\* first but not within 2 x 8 x length(first text) of it, it is added as a
\* second link.
C18_NonAdjacentRunStartsLink ==
    (/\ TwoRunsInOneLink
     /\ Abs(line.items[2].x - line.items[1].x) >= 2 * 8 * Len(line.items[1].str) * 1000)
    => /\ Len(line.links) = 2
       /\ line.links[2].text = line.items[2].str
       /\ line.links[2].url = line.annotations[1].url

\* the width of a run: the width reported, and 8 x length without one
RunWidth(item) ==
    IF item.width # NoWidth THEN item.width ELSE 8 * Len(item.str) * 1000

\* C19 (as claimed): two consecutive runs are joined with one space exactly
\* when next.x - (prev.x + width(prev)) > 3, and directly otherwise.
C19_IntraLineSpacing ==
    (line.processed /\ Len(line.items) = 2)
    => line.text =
          line.items[1].str
          \o (IF line.items[2].x - (line.items[1].x + RunWidth(line.items[1])) > 3 * 1000
                THEN <<" ">> ELSE <<>>)
          \o line.items[2].str

\* the annotations with the corners of every rectangle the other way round
SwapAll(annotations) ==
    [i \in DOMAIN annotations |->
        [annotations[i] EXCEPT !.rect = SwapCorners(annotations[i].rect)]]

\* C20 (as claimed): the links found for a line are the same when every
\* annotation rectangle is given with its corners in the other order.
C20_RectangleNormalisation ==
    line.processed
    => line.links = LineResult(line.items, SwapAll(line.annotations)).links

\* an annotation createLinkMap is to keep
IsLink(ann) == ann.subtype = "Link" /\ ann.url # <<>>

\* C26 (as claimed): every entry of the Map createLinkMap returns is the url
\* and rectangle of an annotation with subtype "Link" and a url, and every
\* such annotation has an entry with its url and its rectangle.
C26_AnnotationFilter ==
    line.processed =>
        /\ \A e \in DOMAIN line.linkMap :
               \E a \in DOMAIN line.annotations :
                   /\ IsLink(line.annotations[a])
                   /\ line.linkMap[e].v = [url |-> line.annotations[a].url,
                                           rect |-> line.annotations[a].rect]
        /\ \A a \in DOMAIN line.annotations :
               IsLink(line.annotations[a]) =>
                   \E e \in DOMAIN line.linkMap :
                       /\ line.linkMap[e].v.url = line.annotations[a].url
                       /\ line.linkMap[e].v.rect = line.annotations[a].rect

\* a text without its spaces
RECURSIVE NoSpaces(_)
NoSpaces(text) ==
    IF text = <<>> THEN <<>>
    ELSE (IF Head(text) = " " THEN <<>> ELSE <<Head(text)>>) \o NoSpaces(Tail(text))
\* the places of the runs of the line in ascending x (no two runs of the
\* model stand at the same x)
ByX(items) ==
    CHOOSE q \in [DOMAIN items -> DOMAIN items] :
        \A i, j \in DOMAIN items : i < j => items[q[i]].x < items[q[j]].x
\* the texts of the runs in the order q, the i-th separator after the i-th
RECURSIVE Interleaved(_, _, _, _)
Interleaved(items, q, seps, i) ==
    IF i > Len(items) THEN <<>>
    ELSE items[q[i]].str
         \o (IF i < Len(items) THEN seps[i] ELSE <<>>)
         \o Interleaved(items, q, seps, i + 1)

\* C29: the text processLine returns, with its spaces removed, is the texts
\* of the runs in ascending x with their spaces removed, one after the
\* other; and it is these texts with nothing or one space between two
\* consecutive runs.
C29_NoTextLostOrReordered ==
    line.processed =>
        LET q == ByX(line.items)
            n == Len(line.items)
        IN  /\ NoSpaces(line.text)
                   = NoSpaces(Interleaved(line.items, q, [i \in 1..n |-> <<>>], 1))
            /\ \E seps \in [1..(n - 1) -> {<<>>, <<" ">>}] :
                   line.text = Interleaved(line.items, q, seps, 1)

\* three runs, the rightmost given first: the first two are joined directly
\* and the third follows after one space
C29_Witness ==
    /\ line.processed
    /\ Len(line.items) = 3
    /\ line.items[1].x > line.items[2].x
    /\ line.text = S_Go \o S_ogle \o <<" ">> \o S_Maps

(***************************************************************************)
(* addToLinks on its own: the calls are made one after the other on a      *)
(* links array, which starts empty.                                        *)
(***************************************************************************)
MaxAdds == 3

\* the run 'Go' at x = 0, and the run 'ogle' next to it or far from it
AddRuns == {[text |-> S_Go, x |-> 0], [text |-> S_ogle, x |-> 16 * 1000],
            [text |-> S_ogle, x |-> 40 * 1000]}
\* three lines: the second less than 2 from the first and from the third
AddYs == {100 * 1000, 101500, 103 * 1000}
LinkInfos ==
    {[text |-> r.text, url |-> u, position |-> [x |-> r.x, y |-> y, page |-> p]] :
        r \in AddRuns, u \in {S_urlG, S_urlA}, y \in AddYs, p \in {1, 2}}

InitAdd ==
    /\ build = "dist"
    /\ options = constructorOptions(<<>>)
    /\ pageTexts = <<>>
    /\ hyperlinks = <<>>
    /\ calls = [c \in CallIds |-> IdleCall]
    /\ written = <<>>
    /\ splice = NoSplice
    /\ group = NoGroup
    /\ line = NoLine
    /\ format = NoFormat
    /\ added = NoAdded
    /\ combine = NoCombine

addLink(linkInfo) ==
    /\ added.adds < MaxAdds
    /\ added' = [links |-> addToLinks(added.links, linkInfo), adds |-> added.adds + 1]
    /\ UNCHANGED <<combine, build, options, pageTexts, hyperlinks, calls, written,
                   splice, group, line, format>>

NextAdd == \E linkInfo \in LinkInfos : addLink(linkInfo)

SpecAdd == InitAdd /\ [][NextAdd]_vars

\* two entries of one url and one page on lines less than 2 apart
SameUrlAndLine(a, b) ==
    /\ a.url = b.url
    /\ a.position.page = b.position.page
    /\ Abs(a.position.y - b.position.y) < 2 * 1000

\* C22: after any sequence of addToLinks calls from the empty array, no two
\* entries of the array have the same url, the same page and y positions
\* less than 2 apart.
C22_OneCandidatePerUrlAndLine ==
    \A i, j \in DOMAIN added.links :
        i # j => ~SameUrlAndLine(added.links[i], added.links[j])

\* the array holds two entries of one url and one page, on lines 2 or more
\* apart, and one of the calls made found an entry of its line and pushed none
C22_Witness ==
    /\ added.adds > Len(added.links)
    /\ \E i, j \in DOMAIN added.links :
           /\ i # j
           /\ added.links[i].url = added.links[j].url
           /\ added.links[i].position.page = added.links[j].position.page
           /\ Abs(added.links[i].position.y - added.links[j].position.y) >= 2 * 1000

(***************************************************************************)
(* combineText on its own, on the texts of two runs of a link as the PDF   *)
(* library gives them (a run may end or start with a space).               *)
(***************************************************************************)
S_page == <<"p","a","g","e">>
CombineTexts ==
    {<<>>, S_Go, S_ogle, S_Home, S_page,
     S_Go \o <<" ">>,
     S_Go \o <<" ">> \o S_Home,
     S_Go \o <<" ">> \o S_Home \o <<" ">>,
     S_Home \o <<" ">> \o S_page,
     <<" ">> \o S_page,
     S_Go \o <<" ">> \o S_Home \o <<" ">> \o S_page}

InitCombine ==
    /\ build = "dist"
    /\ options = constructorOptions(<<>>)
    /\ pageTexts = <<>>
    /\ hyperlinks = <<>>
    /\ calls = [c \in CallIds |-> IdleCall]
    /\ written = <<>>
    /\ splice = NoSplice
    /\ group = NoGroup
    /\ line = NoLine
    /\ format = NoFormat
    /\ added = NoAdded
    /\ \E e \in CombineTexts, n \in CombineTexts :
           combine = [NoCombine EXCEPT !.existing = e, !.newText = n]

combineTexts ==
    /\ ~combine.combined
    /\ combine' = [combine EXCEPT !.combined = TRUE,
                                  !.out = combineText(combine.existing, combine.newText)]
    /\ UNCHANGED <<added, build, options, pageTexts, hyperlinks, calls, written,
                   splice, group, line, format>>

NextCombine == combineTexts

SpecCombine == InitCombine /\ [][NextCombine]_vars

\* the words of a text: its maximal runs of characters that are no white space
RECURSIVE NonEmpty(_)
NonEmpty(parts) ==
    IF parts = <<>> THEN <<>>
    ELSE IF Head(parts) = <<>> THEN NonEmpty(Tail(parts))
    ELSE <<Head(parts)>> \o NonEmpty(Tail(parts))
Words(text) == NonEmpty(splitWs(text))
TwoSpaces == <<" ", " ">>

\* C25 (as claimed): combineText returns the text that contains the other
\* when one does; otherwise, when the last word of existing is the first
\* word of new, the words of existing followed by the words of new with that
\* word once; otherwise existing, one space, new.  The result has no two
\* consecutive spaces when neither input has them.
C25_LinkTextMerging ==
    combine.combined =>
        LET existing == combine.existing
            newText == combine.newText
            words == Words(existing)
            newWords == Words(newText)
            overlap == /\ words # <<>>
                       /\ newWords # <<>>
                       /\ words[Len(words)] = newWords[1]
        IN  /\ includes(existing, newText) => combine.out = existing
            /\ (~includes(existing, newText) /\ includes(newText, existing))
                   => combine.out = newText
            /\ (~includes(existing, newText) /\ ~includes(newText, existing))
                   => /\ overlap => Words(combine.out) = words \o Tail(newWords)
                      /\ ~overlap => combine.out = existing \o <<" ">> \o newText
            /\ (~includes(existing, TwoSpaces) /\ ~includes(newText, TwoSpaces))
                   => ~includes(combine.out, TwoSpaces)

(***************************************************************************)
(* The paragraph reflow of the other variants: processPage of src/index.js *)
(* up to its trim, and formatParagraphs of the pdfjs variant.              *)
(***************************************************************************)
\* .replace(/\r\n/g, '\n')
RECURSIVE CrLfFrom(_, _)
CrLfFrom(s, i) ==
    IF i > Len(s) THEN <<>>
    ELSE IF MatchAt(s, i, <<"\r", NL>>)
      THEN <<NL>> \o CrLfFrom(s, i + 2)
      ELSE <<s[i]>> \o CrLfFrom(s, i + 1)

\* .replace(/([^\n])\n([^\n])/g, '$1 $2'): a match takes the character on
\* each side of the newline, and the next match is looked for after it
RECURSIVE JoinLoneNewlinesFrom(_, _)
JoinLoneNewlinesFrom(s, i) ==
    IF i > Len(s) THEN <<>>
    ELSE IF i + 2 <= Len(s) /\ s[i] # NL /\ s[i + 1] = NL /\ s[i + 2] # NL
      THEN <<s[i], " ", s[i + 2]>> \o JoinLoneNewlinesFrom(s, i + 3)
      ELSE <<s[i]>> \o JoinLoneNewlinesFrom(s, i + 1)

\* processPage of src/index.js, the text before its headers and lists
reflow_js(pageText) ==
    trim(CollapseNewlinesFrom(JoinLoneNewlinesFrom(CrLfFrom(pageText, 1), 1), 1))

formatParagraphs(text) ==
    trim(JoinLoneNewlinesFrom(CollapseNewlinesFrom(text, 1), 1))

(***************************************************************************)
(* The formatter functions on their own: one of them is run on a text, and *)
(* then again on what it returned.                                         *)
(***************************************************************************)
\* 'NEWS'
F_news ==
    <<"N","E","W","S">>
\* 'NEWS\nbody text.'
F_newsBody ==
    <<"N","E","W","S",NL,"b","o","d","y"," ","t","e","x","t",".">>
\* 'Intro\nmore.'
F_intro ==
    <<"I","n","t","r","o",NL,"m","o","r","e",".">>
\* '- Item one\n  continued\n\nNot a list'
F_listContinued ==
    <<"-"," ","I","t","e","m"," ","o","n","e",NL," "," ","c","o","n","t","i",
          "n","u","e","d",NL,NL,"N","o","t"," ","a"," ","l","i","s","t">>
\* '1. First\n2. Second'
F_numbered ==
    <<"1","."," ","F","i","r","s","t",NL,"2","."," ","S","e","c","o","n","d">>
\* '12. Twelfth'
F_twelfth ==
    <<"1","2","."," ","T","w","e","l","f","t","h">>
\* 'a\nb\nc'
F_letters ==
    <<"a",NL,"b",NL,"c">>
\* 'one\ntwo'
F_words ==
    <<"o","n","e",NL,"t","w","o">>
\* 'x\n\n\n\ny'
F_gap ==
    <<"x",NL,NL,NL,NL,"y">>
\* '- a\nbullet  b'
F_bullets ==
    <<"-"," ","a",NL,BULLET," ","b">>
\* 'See a@b.c now'
F_mail ==
    <<"S","e","e"," ","a","@","b",".","c"," ","n","o","w">>
\* 'a\r\nb'
F_crlf ==
    <<"a","\r",NL,"b">>
\* 'one\ntwo\n\nthree'
F_para ==
    <<"o","n","e",NL,"t","w","o",NL,NL,"t","h","r","e","e">>
\* ''
F_empty ==
    <<>>

\* '-5'
F_minus5 ==
    <<"-","5">>
\* '--'
F_dashes ==
    <<"-","-">>
\* '* item'
F_star ==
    <<"*"," ","i","t","e","m">>
\* 'One.\n\nTwo.'
F_sentences ==
    <<"O","n","e",".",NL,NL,"T","w","o",".">>

FormatTexts ==
    {F_news, F_newsBody, F_intro, F_listContinued, F_numbered, F_twelfth, F_letters,
     F_words, F_gap, F_bullets, F_mail, F_crlf, F_para, F_empty,
     F_minus5, F_dashes, F_star, F_sentences}

InitFormat ==
    /\ build = "dist"
    /\ options = constructorOptions(<<>>)
    /\ pageTexts = <<>>
    /\ hyperlinks = <<>>
    /\ calls = [c \in CallIds |-> IdleCall]
    /\ written = <<>>
    /\ added = NoAdded
    /\ combine = NoCombine
    /\ splice = NoSplice
    /\ group = NoGroup
    /\ line = NoLine
    /\ \E t \in FormatTexts : format = [NoFormat EXCEPT !.text = t, !.out = t]

\* format.out is the text of the run, then what the pass before returned
FormatPass(fn, out) ==
    /\ format.fn \in {"none", fn}
    /\ format.passes < MaxPasses
    /\ format' = [format EXCEPT !.fn = fn, !.passes = @ + 1,
                                !.before = format.out, !.out = out]
    /\ UNCHANGED <<added, combine, build, options, pageTexts, hyperlinks, calls, written, splice, group, line>>

formatSections ==
    /\ format.passes < MaxPasses
    /\ FormatPass("detectAndFormatSections", detectAndFormatSections(format.out))
formatLists ==
    /\ format.passes < MaxPasses
    /\ FormatPass("detectAndFormatLists", detectAndFormatLists(format.out))
reflowPage ==
    /\ format.passes < MaxPasses
    /\ FormatPass("reflow_js", reflow_js(format.out))
reflowParagraphs ==
    /\ format.passes < MaxPasses
    /\ FormatPass("formatParagraphs", formatParagraphs(format.out))

formatPage ==
    /\ format.passes < MaxPasses
    /\ FormatPass("processPage", processPage(format.out))

NextFormat == formatSections \/ formatLists \/ reflowPage \/ reflowParagraphs \/ formatPage

SpecFormat == InitFormat /\ [][NextFormat]_vars

\* C12 (as claimed): detectAndFormatSections run on what it returned for a
\* text that is not empty prefixes no header line again: no `## ##` is in
\* the result.
C12_HeaderDetectionIdempotent ==
    (/\ format.fn = "detectAndFormatSections"
     /\ format.passes = 2
     /\ format.text # <<>>)
    => ~includes(format.out, <<"#","#"," ","#","#">>)

\* the lines of the text given to the first pass, and of what it returned
InLines == split(format.text, NL)
OutLines == split(format.out, NL)
ListsRunOnce == format.fn = "detectAndFormatLists" /\ format.passes = 1

\* C13 (as claimed, for src/index.ts): a non-blank line that is no list
\* item and directly follows a list item is in the output as it is.
C13_ListContinuationKept ==
    ListsRunOnce =>
        /\ Len(OutLines) = Len(InLines)
        /\ \A k \in 2..Len(InLines) :
               (/\ isListItem(trim(InLines[k - 1]))
                /\ ~isListItem(trim(InLines[k]))
                /\ trim(InLines[k]) # <<>>)
               => OutLines[k] = InLines[k]

\* the <digits>. token a numbered line starts with
NumberToken(trimmed) ==
    Sub(trimmed, 1, CHOOSE j \in DOMAIN trimmed :
                        trimmed[j] = "." /\ \A k \in 1..(j - 1) : IsDigit(trimmed[k]))

\* C15 (as claimed): a line <digits>. <rest> is in the output of
\* detectAndFormatLists as a line that starts with the same <digits>. token
\* and goes on with <rest>.
C15_NumberingTokenKept ==
    ListsRunOnce =>
        \A k \in DOMAIN InLines :
            StartsWithNumberDot(trim(InLines[k])) =>
                LET trimmed == trim(InLines[k])
                    token == NumberToken(trimmed)
                    rest == TrimLeft(Sub(trimmed, Len(token) + 1, Len(trimmed)))
                IN  /\ k <= Len(OutLines)
                    /\ startsWith(OutLines[k], token)
                    /\ TrimLeft(Sub(OutLines[k], Len(token) + 1, Len(OutLines[k]))) = rest

\* C16 (as claimed): after the reflow no newline stands alone between two
\* characters that are no newlines, and no three newlines stand in a row.
C16_NoLoneNewlineLeft ==
    (format.fn \in {"reflow_js", "formatParagraphs"} /\ format.passes = 1)
    => /\ \A i \in 2..(Len(format.out) - 1) :
              format.out[i] = NL
              => (format.out[i - 1] = NL \/ format.out[i + 1] = NL)
       /\ ~includes(format.out, <<NL, NL, NL>>)

SectionsRunOnce == format.fn = "detectAndFormatSections" /\ format.passes = 1

\* the output holds the line `## <title>`
EmittedAsHeader(title) ==
    includes(<<NL>> \o format.out \o <<NL>>, <<NL>> \o Str_hashes \o title \o <<NL>>)
\* the output holds the line as it is
EmittedUnchanged(ln) ==
    includes(<<NL>> \o format.out \o <<NL>>, <<NL>> \o ln \o <<NL>>)

\* the header test as claimed: no lower-case letter at all, or a capital
\* letter first and none of . ! ? anywhere
HeaderCriterion(trimmed) ==
    /\ Len(trimmed) <= 70
    /\ ~includes(trimmed, Str_at)
    /\ ~includes(trimmed, Str_http)
    /\ \/ \A i \in DOMAIN trimmed : trimmed[i] \notin Lower
       \/ /\ trimmed # <<>>
          /\ trimmed[1] \in Upper
          /\ \A i \in DOMAIN trimmed : trimmed[i] \notin {".", "!", "?"}

\* C23 (as claimed): every line detectAndFormatSections emits as
\* `## <text>` has at most 70 characters, neither `@` nor `http`, and is
\* fully upper-case or starts with a capital letter and has no
\* sentence-ending punctuation; a line that fails the test is output as it is.
C23_HeaderCriterion ==
    SectionsRunOnce =>
        \A k \in DOMAIN InLines :
            /\ EmittedAsHeader(trim(InLines[k])) => HeaderCriterion(trim(InLines[k]))
            /\ ~HeaderCriterion(trim(InLines[k])) => EmittedUnchanged(InLines[k])

\* a trimmed line that starts with a bullet glyph, and one whose glyph is
\* followed by white space
StartsWithGlyph(trimmed) == trimmed # <<>> /\ trimmed[1] \in {BULLET, "-", "*"}
BulletLine(trimmed) ==
    StartsWithGlyph(trimmed) /\ Len(trimmed) >= 2 /\ IsSpace(trimmed[2])

\* C27 (as claimed): detectAndFormatLists writes a line whose trimmed text
\* is a bullet glyph, white space and <rest> as `- <rest>`, a `* item` line
\* included, and leaves a line alone whose glyph is followed by no white
\* space, such as `-5` or `--`.
C27_BulletDetection ==
    ListsRunOnce =>
        /\ Len(OutLines) = Len(InLines)
        /\ \A k \in DOMAIN InLines :
               LET trimmed == trim(InLines[k])
               IN  /\ BulletLine(trimmed)
                         => OutLines[k] = Str_dash_space
                                          \o TrimLeft(Sub(trimmed, 2, Len(trimmed)))
                   /\ (StartsWithGlyph(trimmed) /\ ~BulletLine(trimmed))
                         => OutLines[k] = InLines[k]

PageRunOnce == format.fn = "processPage" /\ format.passes = 1

\* C28 (as claimed): a blank line between two non-blank lines of the page
\* text is in the result of processPage a blank line between a line with
\* the text of the first and a line with the text of the second.
C28_ParagraphBreaksSurvive ==
    PageRunOnce =>
        \A k \in 2..(Len(InLines) - 1) :
            (/\ trim(InLines[k]) = <<>>
             /\ trim(InLines[k - 1]) # <<>>
             /\ trim(InLines[k + 1]) # <<>>)
            => \E i, j, l \in DOMAIN OutLines :
                   /\ i < j
                   /\ j < l
                   /\ includes(OutLines[i], trim(InLines[k - 1]))
                   /\ trim(OutLines[j]) = <<>>
                   /\ includes(OutLines[l], trim(InLines[k + 1]))

\* C30 (as claimed): detectAndFormatSections emits no header line with an
\* empty title, and processPage of the empty text is the empty text.
C30_NoEmptyHeader ==
    /\ SectionsRunOnce => ~includes(format.out \o <<NL>>, Str_hashes \o <<NL>>)
    /\ (PageRunOnce /\ format.text = <<>>) => format.out = <<>>

====
